---------------------------- MODULE Spec2Model ----------------------------
(***************************************************************************)
(* Concurrent fan-out dispatcher of piusalfred/whatsapp-action.            *)
(*                                                                         *)
(* The repository holds two drafts of the dispatcher, both `package main`: *)
(*   src/unnamed/part_002  main watches for SIGINT/SIGTERM, closes and     *)
(*                         drains responseChan itself (the signal-handling *)
(*                         program);                                       *)
(*   src/unnamed/part_001  Run owns responseChan and drains it in a        *)
(*                         deferred step.                                  *)
(* The coordinator run and the per-recipient closures (sendf) are the same *)
(* code in both drafts and are modelled once.  The variable `draft` says   *)
(* which program a behaviour is an execution of.                           *)
(*                                                                         *)
(* Goroutines are interleaved one statement (one channel operation, one    *)
(* call return) at a time.  Channels are Go channels: a send on a closed   *)
(* channel and a close of a closed channel panic, a panic in any goroutine *)
(* ends the process with status 2, a select with several ready cases takes *)
(* any of them.  errgroup.WithContext is golang.org/x/sync/errgroup: the   *)
(* derived context is cancelled when the parent is, when the first         *)
(* function returns a non-nil error, or when Wait returns; Wait returns    *)
(* that first error.                                                       *)
(***************************************************************************)
EXTENDS Integers, Sequences, FiniteSets, TLC

\* Largest recipient list explored.
MaxRecipients == 2

\* Number of interrupt signals the environment may deliver in one execution.
MaxSignals == 1

\* Longest message list of a send response.
MaxMessages == 2

VARIABLES
    draft,          \* "part_001" or "part_002": the program being executed
    recipients,     \* inputs.Recipients
    nctxDone,       \* nctx (main's context.WithCancel) has been cancelled
    signals,        \* number of signals delivered by the OS so far
    signalChan,     \* part_002 main: make(chan os.Signal, 1)
    responseChan,   \* the Result Sink: [buf, cap, closed]
    errChan,        \* Run's errChan (result of run): [buf, cap, closed]
    mainErrChan,    \* part_002 main's errChan (result of Run)
    tasks,          \* the closures passed to errg.Go so far: [to, pc, calls, resp, err]
    gErr,           \* errgroup.Group.err (first non-nil error)
    gCancelled,     \* errgroup has cancelled gctx itself
    coPc,           \* position of the goroutine executing run
    coResult,       \* value run returns
    runPc,          \* position of Run
    runWoken,       \* the case that woke Run while it was parked in its select
    allErrors,      \* part_002 Run: allErrors
    runResult,      \* value Run returns
    mainPc,         \* position of main
    output,         \* responses written to stdout, in order
    reported,       \* error main wrote to stderr (Nil if none)
    exited,         \* the process has ended
    exitStatus,     \* its exit status, once exited
    fault,          \* runtime panic message, "none" if none
    call            \* a function called on its own: [fn, its arguments, pc, result]

vars == << draft, recipients, nctxDone, signals, signalChan, responseChan,
           errChan, mainErrChan, tasks, gErr, gCancelled, coPc, coResult,
           runPc, runWoken, allErrors, runResult, mainPc, output, reported, exited,
           exitStatus, fault, call >>

-----------------------------------------------------------------------------
(* Inputs *)

RecipientIds == << "111", "222", "333", "444", "555" >>

\* Message ids the remote API assigns, one per accepted send.
WamIds == << "wamid.A", "wamid.B", "wamid.C", "wamid.D", "wamid.E" >>

RECURSIVE EnvValue(_)
\* INPUT_RECIPIENTS naming the first n recipients, as the text pieces it is
\* made of; the variable unset or empty reads as the empty text
EnvValue(n) ==
    IF n = 0 THEN << >>
    ELSE IF n = 1 THEN << RecipientIds[1] >>
    ELSE EnvValue(n - 1) \o << ",", RecipientIds[n] >>

EnvValues == { EnvValue(n) : n \in 0..MaxRecipients }

RECURSIVE SplitFrom(_, _)
\* strings.Split(s, ","), the field under way being cur: the text with no
\* separator in it, the empty text included, is one field
SplitFrom(s, cur) ==
    IF s = << >> THEN << cur >>
    ELSE IF Head(s) = "," THEN << cur >> \o SplitFrom(Tail(s), "")
    ELSE SplitFrom(Tail(s), cur \o Head(s))

Split(s) == SplitFrom(s, "")

\* the lists main hands to Run
RecipientLists == { Split(e) : e \in EnvValues }

\* the lists a caller may hand to Run
RunInputs == RecipientLists \cup { << >> }

\* if nOfRecipients == 0
NoRecipientsNever == FALSE

NoRecipients == Len(recipients) = 0

\* make(chan ..., len(inputs.Recipients)) of the Result Sink
SinkCapacityOneShort == Len(recipients) - 1

SinkCapacity == Len(recipients)

\* capacity of Run's errChan
ErrChanUnbuffered == IF draft = "part_001" THEN 0 ELSE Len(recipients)

ErrChanCap == IF draft = "part_001" THEN 1 ELSE Len(recipients)

-----------------------------------------------------------------------------
(* Error values: an error is the sequence of the errors it joins; nil is   *)
(* the empty join.                                                         *)

Nil == << >>

\* ctx.Err() of a cancelled context
CtxErr == << [msg |-> "context canceled", to |-> ""] >>

NoRecipientsErr == << [msg |-> "no recipients specified", to |-> ""] >>

\* SendTextMessage's error: "failed to send text message: %w"
SendErr(to, cause) == << [msg |-> "failed to send text message: " \o cause, to |-> to] >>

RECURSIVE Join(_)
\* errors.Join: nil operands dropped, nil when none is left
Join(errs) ==
    IF errs = << >> THEN Nil
    ELSE Head(errs) \o Join(Tail(errs))

Includes(e, sub) == \A i \in 1..Len(sub) : \E j \in 1..Len(e) : e[j] = sub[i]

-----------------------------------------------------------------------------
(* Go channels *)

MakeChan(n) == [buf |-> << >>, cap |-> n, closed |-> FALSE]

CanSend(ch) == Len(ch.buf) < ch.cap
CanRecv(ch) == Len(ch.buf) > 0
Sent(ch, v) == [ch EXCEPT !.buf = Append(@, v)]
Received(ch) == [ch EXCEPT !.buf = Tail(@)]
NotClosed(ch) == ch

Closed(ch) == [ch EXCEPT !.closed = TRUE]

\* a `for v := range ch` loop ends when ch is closed and drained
RangeEndsWhenDrained(ch) == ~CanRecv(ch)

RangeEnds(ch) == ch.closed /\ ~CanRecv(ch)

\* a goroutine panicked: the runtime ends the process with status 2
Panic(msg) ==
    /\ fault' = msg
    /\ exited' = TRUE
    /\ exitStatus' = 2

Alive == ~exited

\* the cases of a select that are ready
ReadyCases(done, ch) ==
    (IF done THEN {"ctx.Done"} ELSE {}) \cup (IF CanRecv(ch) THEN {"recv"} ELSE {})

\* Run's select: with cases ready it takes any of them; with none it parks,
\* and the first case to become ready afterwards wakes it and is the one taken
SelectCases(done, ch) ==
    IF runPc = "parked" THEN {runWoken} \ {"none"}
    ELSE IF ReadyCases(done, ch) = {} THEN {"park"}
    ELSE ReadyCases(done, ch)

\* a cancellation or a send reaches Run: it wakes Run if Run is parked and
\* nothing has woken it yet
Woken(case) == IF runPc = "parked" /\ runWoken = "none" THEN case ELSE runWoken

-----------------------------------------------------------------------------
(* The coordinator run and its closures (same code in both drafts) *)

\* gctx, the context handed to every SendTextMessage call
gctxDone == nctxDone \/ gCancelled

\* A *whttp.Response is [StatusCode, Message]; Message, a pointer, is << >>
\* when nil and << [Messages |-> the list of [ID |-> id]] >> otherwise.
\* resp before SendTextMessage has answered
NoResponse == [StatusCode |-> 0, Message |-> << >>]

\* what the remote call answers to the k-th send
SendResponse(k) ==
    [StatusCode |-> 200, Message |-> << [Messages |-> << [ID |-> WamIds[k]] >>] >>]

flattenResponseLastID(receiver, response) ==
    [StatusCode |-> response.StatusCode,
     Receiver   |-> receiver,
     MessageID  |-> IF response.Message # << >> /\ Len(response.Message[1].Messages) > 0
                    THEN response.Message[1].Messages[Len(response.Message[1].Messages)].ID
                    ELSE ""]

flattenResponse(receiver, response) ==
    [StatusCode |-> response.StatusCode,
     Receiver   |-> receiver,
     MessageID  |-> IF response.Message # << >> /\ Len(response.Message[1].Messages) > 0
                    THEN response.Message[1].Messages[1].ID
                    ELSE ""]

\* the value a closure puts on responses
Outcome(k, resp) ==
    IF draft = "part_002" THEN flattenResponse(tasks[k].to, resp) ELSE resp

\* outcomes of one SendTextMessage call.  The request is made with gctx
\* (NewRequestWithContext): once gctx is cancelled the transport gives the
\* call up, so a call answers with a response only while gctx is live (the
\* closure may still be cancelled between the answer and its write).
SendOutcomes ==
    IF gctxDone THEN {"http 500", "context canceled"} ELSE {"ok", "http 500"}

\* the closure after SendTextMessage has answered: if err != nil { return err },
\* else it goes on to its write
AfterSendAlwaysWrites(err) == "write"

AfterSendRetries(err) == IF err # Nil THEN "send" ELSE "write"

AfterSend(err) == IF err # Nil THEN "done" ELSE "write"

\* errgroup.Go's wrapper around a closure that returned err: the first
\* non-nil error is kept (errOnce) and cancels gctx
GroupCancelsOnAnyReturn(err) == TRUE

GroupCancels(err) == err # Nil

GroupErr(err) == IF gErr = Nil THEN err ELSE gErr

GroupCancelled(err) == gCancelled \/ (gErr = Nil /\ GroupCancels(err))

\* the for loop of run has called errg.Go for every recipient
LoopDone == Len(tasks) = Len(recipients)

\* errg.Wait returns once every function passed to Go has returned
WaitReturnsOnFirst == \E k \in 1..Len(tasks) : tasks[k].pc = "done"

WaitReturns == \A k \in 1..Len(tasks) : tasks[k].pc = "done"

\* errg.Go(sendf(recipient, message))
run_Go ==
    /\ Alive /\ coPc = "loop" /\ ~LoopDone
    /\ tasks' = Append(tasks, [to   |-> recipients[Len(tasks) + 1],
                               pc   |-> "send",
                               calls |-> 1,
                               resp |-> NoResponse,
                               err  |-> Nil])
    /\ UNCHANGED << draft, recipients, nctxDone, signals, signalChan,
                    responseChan, errChan, mainErrChan, gErr, gCancelled, coPc,
                    coResult, runPc, allErrors, runResult, mainPc, output,
                    reported, exited, exitStatus, fault >>
    /\ UNCHANGED runWoken
    /\ UNCHANGED call

\* resp, err := client.SendTextMessage(gctx, recipient, message) returns
sendf_Send(k) ==
    /\ Alive /\ k \in 1..Len(tasks) /\ tasks[k].pc = "send"
    /\ \E o \in SendOutcomes :
         LET err  == IF o = "ok" THEN Nil ELSE SendErr(tasks[k].to, o)
             resp == IF o = "ok" THEN SendResponse(k) ELSE NoResponse
         IN  IF AfterSend(err) = "done"
             THEN /\ tasks' = [tasks EXCEPT ![k].pc = "done", ![k].err = err]
                  /\ gErr' = GroupErr(err)
                  /\ gCancelled' = GroupCancelled(err)
             ELSE /\ tasks' = [tasks EXCEPT
                                 ![k].pc = AfterSend(err), ![k].err = err,
                                 ![k].resp = resp,
                                 ![k].calls = IF AfterSend(err) = "send" THEN @ + 1 ELSE @]
                  /\ UNCHANGED << gErr, gCancelled >>
    /\ UNCHANGED << draft, recipients, nctxDone, signals, signalChan,
                    responseChan, errChan, mainErrChan, coPc, coResult, runPc,
                    allErrors, runResult, mainPc, output, reported, exited,
                    exitStatus, fault >>
    /\ UNCHANGED runWoken
    /\ UNCHANGED call

\* responses <- flattenResponse(recipient, resp); return nil
sendf_Write(k) ==
    /\ Alive /\ k \in 1..Len(tasks) /\ tasks[k].pc = "write"
    /\ responseChan.closed \/ CanSend(responseChan)
    /\ IF responseChan.closed
       THEN /\ Panic("send on closed channel")
            /\ UNCHANGED << responseChan, tasks, gErr, gCancelled >>
       ELSE /\ responseChan' = Sent(responseChan, Outcome(k, tasks[k].resp))
            /\ tasks' = [tasks EXCEPT ![k].pc = "done"]
            /\ gErr' = GroupErr(Nil)
            /\ gCancelled' = GroupCancelled(Nil)
            /\ UNCHANGED << fault, exited, exitStatus >>
    /\ UNCHANGED << draft, recipients, nctxDone, signals, signalChan, errChan,
                    mainErrChan, coPc, coResult, runPc, allErrors, runResult,
                    mainPc, output, reported >>
    /\ UNCHANGED runWoken
    /\ UNCHANGED call

\* err := errg.Wait()
run_Wait ==
    /\ Alive /\ coPc = "loop" /\ LoopDone /\ WaitReturns
    /\ coResult' = gErr
    /\ gCancelled' = TRUE
    /\ coPc' = "close"
    /\ UNCHANGED << draft, recipients, nctxDone, signals, signalChan,
                    responseChan, errChan, mainErrChan, tasks, gErr, runPc,
                    allErrors, runResult, mainPc, output, reported, exited,
                    exitStatus, fault >>
    /\ UNCHANGED runWoken
    /\ UNCHANGED call

\* defer close(responses), run as run returns
run_Close ==
    /\ Alive /\ coPc = "close"
    /\ IF responseChan.closed
       THEN /\ Panic("close of closed channel")
            /\ UNCHANGED << responseChan, coPc >>
       ELSE /\ responseChan' = Closed(responseChan)
            /\ coPc' = "deliver"
            /\ UNCHANGED << fault, exited, exitStatus >>
    /\ UNCHANGED << draft, recipients, nctxDone, signals, signalChan, errChan,
                    mainErrChan, tasks, gErr, gCancelled, coResult, runPc,
                    allErrors, runResult, mainPc, output, reported >>
    /\ UNCHANGED runWoken
    /\ UNCHANGED call

\* errChan <- run(...)
run_Deliver ==
    /\ Alive /\ coPc = "deliver" /\ CanSend(errChan)
    /\ errChan' = Sent(errChan, coResult)
    /\ coPc' = "done"
    /\ UNCHANGED << draft, recipients, nctxDone, signals, signalChan,
                    responseChan, mainErrChan, tasks, gErr, gCancelled,
                    coResult, runPc, allErrors, runResult, mainPc, output,
                    reported, exited, exitStatus, fault >>
    /\ runWoken' = Woken("recv")
    /\ UNCHANGED call

-----------------------------------------------------------------------------
(* src/unnamed/part_002: the signal-handling program *)

\* Run's errChan is never closed: neither Run nor run holds a close(errChan)
ErrChanClosed == errChan.closed

\* the OS delivers SIGINT or SIGTERM; signal.Notify never blocks on a full channel
Notify ==
    /\ Alive /\ draft = "part_002" /\ signals < MaxSignals
    /\ signals' = signals + 1
    /\ signalChan' = IF CanSend(signalChan) THEN Sent(signalChan, "SIGINT") ELSE signalChan
    /\ UNCHANGED << draft, recipients, nctxDone, responseChan, errChan,
                    mainErrChan, tasks, gErr, gCancelled, coPc, coResult, runPc,
                    allErrors, runResult, mainPc, output, reported, exited,
                    exitStatus, fault >>
    /\ UNCHANGED runWoken
    /\ UNCHANGED call

\* Run, up to the go statement that starts run
Run2_Begin ==
    /\ Alive /\ draft = "part_002" /\ runPc = "begin"
    /\ IF NoRecipients
       THEN /\ runResult' = NoRecipientsErr
            /\ runPc' = "returned"
            /\ UNCHANGED << errChan, coPc >>
       ELSE /\ errChan' = MakeChan(ErrChanCap)
            /\ coPc' = "loop"
            /\ runPc' = "select"
            /\ UNCHANGED runResult
    /\ UNCHANGED << draft, recipients, nctxDone, signals, signalChan,
                    responseChan, mainErrChan, tasks, gErr, gCancelled,
                    coResult, allErrors, mainPc, output, reported, exited,
                    exitStatus, fault >>
    /\ UNCHANGED runWoken
    /\ UNCHANGED call

\* Run's select, and the range over errChan its second case goes on with
Run2_Await ==
    /\ Alive /\ draft = "part_002"
    /\ CASE runPc \in {"select", "parked"} ->
              \E c \in SelectCases(nctxDone, errChan) :
                 IF c = "park"
                 THEN /\ runPc' = "parked"
                      /\ UNCHANGED << runResult, errChan, allErrors >>
                 ELSE IF c = "ctx.Done"
                 THEN /\ runResult' = CtxErr
                      /\ runPc' = "returned"
                      /\ UNCHANGED << errChan, allErrors >>
                 ELSE \* case <-errChan: the value received is dropped
                      /\ errChan' = Received(errChan)
                      /\ runPc' = "range"
                      /\ UNCHANGED << runResult, allErrors >>
         [] runPc = "range" ->
              /\ CanRecv(errChan) \/ ErrChanClosed
              /\ IF CanRecv(errChan)
                 THEN /\ allErrors' = Append(allErrors, Head(errChan.buf))
                      /\ errChan' = Received(errChan)
                      /\ UNCHANGED << runResult, runPc >>
                 ELSE /\ runResult' = Join(allErrors)
                      /\ runPc' = "returned"
                      /\ UNCHANGED << errChan, allErrors >>
         [] OTHER -> FALSE
    /\ UNCHANGED << draft, recipients, nctxDone, signals, signalChan,
                    responseChan, mainErrChan, tasks, gErr, gCancelled, coPc,
                    coResult, mainPc, output, reported, exited, exitStatus,
                    fault >>
    /\ UNCHANGED runWoken
    /\ UNCHANGED call

\* main's goroutine: errChan <- Run(nctx, inputs, responseChan)
main2_GoRun ==
    /\ Alive /\ draft = "part_002" /\ runPc = "returned" /\ CanSend(mainErrChan)
    /\ mainErrChan' = Sent(mainErrChan, runResult)
    /\ runPc' = "delivered"
    /\ UNCHANGED << draft, recipients, nctxDone, signals, signalChan,
                    responseChan, errChan, tasks, gErr, gCancelled, coPc,
                    coResult, allErrors, runResult, mainPc, output, reported,
                    exited, exitStatus, fault >>
    /\ UNCHANGED runWoken
    /\ UNCHANGED call

\* main's select: case <-nctx.Done() / case sig := <-signalChan: cancel()
main2_Select ==
    /\ Alive /\ draft = "part_002" /\ mainPc = "select"
    /\ \E c \in ReadyCases(nctxDone, signalChan) :
         IF c = "ctx.Done"
         THEN UNCHANGED << signalChan, nctxDone, runWoken >>
         ELSE /\ signalChan' = Received(signalChan)
              /\ nctxDone' = TRUE
              /\ runWoken' = Woken("ctx.Done")
    /\ mainPc' = "close"
    /\ UNCHANGED << draft, recipients, signals, responseChan, errChan,
                    mainErrChan, tasks, gErr, gCancelled, coPc, coResult, runPc,
                    allErrors, runResult, output, reported, exited, exitStatus,
                    fault >>
    /\ UNCHANGED call

\* close(responseChan) in main
main2_Close ==
    /\ Alive /\ draft = "part_002" /\ mainPc = "close"
    /\ IF responseChan.closed
       THEN /\ Panic("close of closed channel")
            /\ UNCHANGED << responseChan, mainPc >>
       ELSE /\ responseChan' = Closed(responseChan)
            /\ mainPc' = "range"
            /\ UNCHANGED << fault, exited, exitStatus >>
    /\ UNCHANGED << draft, recipients, nctxDone, signals, signalChan, errChan,
                    mainErrChan, tasks, gErr, gCancelled, coPc, coResult, runPc,
                    allErrors, runResult, output, reported >>
    /\ UNCHANGED runWoken
    /\ UNCHANGED call

\* for resp := range responseChan { stdout.Write(...) }
main2_Range ==
    /\ Alive /\ draft = "part_002" /\ mainPc = "range"
    /\ CanRecv(responseChan) \/ RangeEnds(responseChan)
    /\ IF CanRecv(responseChan)
       THEN /\ output' = Append(output, Head(responseChan.buf))
            /\ responseChan' = Received(responseChan)
            /\ UNCHANGED mainPc
       ELSE /\ mainPc' = "recv"
            /\ UNCHANGED << output, responseChan >>
    /\ UNCHANGED << draft, recipients, nctxDone, signals, signalChan, errChan,
                    mainErrChan, tasks, gErr, gCancelled, coPc, coResult, runPc,
                    allErrors, runResult, reported, exited, exitStatus, fault >>
    /\ UNCHANGED runWoken
    /\ UNCHANGED call

\* if err := <-errChan; err != nil { ...; os.Exit(1) }, else main returns
main2_Recv ==
    /\ Alive /\ draft = "part_002" /\ mainPc = "recv" /\ CanRecv(mainErrChan)
    /\ mainErrChan' = Received(mainErrChan)
    /\ reported' = Head(mainErrChan.buf)
    /\ exitStatus' = IF Head(mainErrChan.buf) # Nil THEN 1 ELSE 0
    /\ exited' = TRUE
    /\ mainPc' = "done"
    /\ UNCHANGED << draft, recipients, nctxDone, signals, signalChan,
                    responseChan, errChan, tasks, gErr, gCancelled, coPc,
                    coResult, runPc, allErrors, runResult, output, fault >>
    /\ UNCHANGED runWoken
    /\ UNCHANGED call

InitRest ==
    /\ nctxDone = FALSE
    /\ signals = 0
    /\ signalChan = MakeChan(1)
    /\ errChan = MakeChan(0)
    /\ tasks = << >>
    /\ gErr = Nil
    /\ gCancelled = FALSE
    /\ coPc = "idle"
    /\ coResult = Nil
    /\ runPc = "begin"
    /\ runWoken = "none"
    /\ allErrors = << >>
    /\ runResult = Nil
    /\ output = << >>
    /\ reported = Nil
    /\ exited = FALSE
    /\ exitStatus = 0
    /\ fault = "none"

\* no function is called on its own
NoCall == [fn |-> "none", pc |-> "none"]

InitCommon ==
    /\ recipients \in RecipientLists
    /\ InitRest
    /\ call = NoCall

\* part_002 main's channels and position at its select
InitMain2 ==
    /\ draft = "part_002"
    /\ responseChan = MakeChan(SinkCapacity)
    /\ mainErrChan = MakeChan(1)
    /\ mainPc = "select"

\* part_002 main up to its select: the channels are made, Run is started
InitSignal ==
    /\ InitCommon
    /\ InitMain2

NextSignal ==
    \/ Notify
    \/ main2_Select \/ main2_Close \/ main2_Range \/ main2_Recv
    \/ main2_GoRun \/ Run2_Begin \/ Run2_Await
    \/ run_Go \/ run_Wait \/ run_Close \/ run_Deliver
    \/ \E k \in 1..MaxRecipients : sendf_Send(k)
    \/ \E k \in 1..MaxRecipients : sendf_Write(k)

SpecSignal == InitSignal /\ [][NextSignal]_vars

-----------------------------------------------------------------------------
(* src/unnamed/part_001: Run drains responseChan in a deferred step *)

\* Run's caller cancels the scope handed to Run (interrupt or deadline)
Cancel1 ==
    /\ Alive /\ draft = "part_001" /\ ~nctxDone
    /\ runPc \in {"begin", "select", "parked", "drain"}
    /\ nctxDone' = TRUE
    /\ UNCHANGED << draft, recipients, signals, signalChan, responseChan,
                    errChan, mainErrChan, tasks, gErr, gCancelled, coPc,
                    coResult, runPc, allErrors, runResult, mainPc, output,
                    reported, exited, exitStatus, fault >>
    /\ runWoken' = Woken("ctx.Done")
    /\ UNCHANGED call

\* Run, up to the go statement that starts run
Run1_Begin ==
    /\ Alive /\ draft = "part_001" /\ runPc = "begin"
    /\ IF NoRecipients
       THEN /\ runResult' = NoRecipientsErr
            /\ runPc' = "returned"
            /\ UNCHANGED << errChan, responseChan, coPc >>
       ELSE /\ errChan' = MakeChan(ErrChanCap)
            /\ responseChan' = MakeChan(SinkCapacity)
            /\ coPc' = "loop"
            /\ runPc' = "select"
            /\ UNCHANGED runResult
    /\ UNCHANGED << draft, recipients, nctxDone, signals, signalChan,
                    mainErrChan, tasks, gErr, gCancelled, coResult, allErrors,
                    mainPc, output, reported, exited, exitStatus, fault >>
    /\ UNCHANGED runWoken
    /\ UNCHANGED call

\* select { case <-ctx.Done(): return ctx.Err(); case err := <-errChan: return err }
Run1_Select ==
    /\ Alive /\ draft = "part_001" /\ runPc \in {"select", "parked"}
    /\ \E c \in SelectCases(nctxDone, errChan) :
         IF c = "park"
         THEN /\ runPc' = "parked"
              /\ UNCHANGED << runResult, errChan >>
         ELSE IF c = "ctx.Done"
         THEN /\ runResult' = CtxErr
              /\ runPc' = "drain"
              /\ UNCHANGED errChan
         ELSE /\ runResult' = Head(errChan.buf)
              /\ errChan' = Received(errChan)
              /\ runPc' = "drain"
    /\ UNCHANGED << draft, recipients, nctxDone, signals, signalChan,
                    responseChan, mainErrChan, tasks, gErr, gCancelled, coPc,
                    coResult, allErrors, mainPc, output, reported, exited,
                    exitStatus, fault >>
    /\ UNCHANGED runWoken
    /\ UNCHANGED call

\* the deferred func: for resp := range responseChan { stdout.Write(...) }
Run1_Drain ==
    /\ Alive /\ draft = "part_001" /\ runPc = "drain"
    /\ CanRecv(responseChan) \/ RangeEnds(responseChan)
    /\ IF CanRecv(responseChan)
       THEN /\ output' = Append(output, Head(responseChan.buf))
            /\ responseChan' = Received(responseChan)
            /\ UNCHANGED runPc
       ELSE /\ runPc' = "returned"
            /\ UNCHANGED << output, responseChan >>
    /\ UNCHANGED << draft, recipients, nctxDone, signals, signalChan, errChan,
                    mainErrChan, tasks, gErr, gCancelled, coPc, coResult,
                    allErrors, runResult, mainPc, reported, exited, exitStatus,
                    fault >>
    /\ UNCHANGED runWoken
    /\ UNCHANGED call

\* if err := Run(nctx, inputs); err != nil { ...; os.Exit(1) }, else main returns
main1_Report ==
    /\ Alive /\ draft = "part_001" /\ mainPc = "Run" /\ runPc = "returned"
    /\ reported' = runResult
    /\ exitStatus' = IF runResult # Nil THEN 1 ELSE 0
    /\ exited' = TRUE
    /\ mainPc' = "done"
    /\ UNCHANGED << draft, recipients, nctxDone, signals, signalChan,
                    responseChan, errChan, mainErrChan, tasks, gErr,
                    gCancelled, coPc, coResult, runPc, allErrors, runResult,
                    output, fault >>
    /\ UNCHANGED runWoken
    /\ UNCHANGED call

\* part_001 main up to its call of Run
InitMain1 ==
    /\ draft = "part_001"
    /\ responseChan = MakeChan(0)
    /\ mainErrChan = MakeChan(0)
    /\ mainPc = "Run"

InitDefer ==
    /\ InitCommon
    /\ InitMain1

NextDefer ==
    \/ Cancel1
    \/ Run1_Begin \/ Run1_Select \/ Run1_Drain \/ main1_Report
    \/ run_Go \/ run_Wait \/ run_Close \/ run_Deliver
    \/ \E k \in 1..MaxRecipients : sendf_Send(k)
    \/ \E k \in 1..MaxRecipients : sendf_Write(k)

SpecDefer == InitDefer /\ [][NextDefer]_vars

-----------------------------------------------------------------------------
(* Both drafts *)

Init == InitSignal \/ InitDefer

Next == NextSignal \/ NextDefer

Spec == Init /\ [][Next]_vars

\* Run called with any list, the empty one included, by a caller that
\* otherwise does what main does
InitRun ==
    /\ recipients \in RunInputs
    /\ InitRest
    /\ InitMain2 \/ InitMain1
    /\ call = NoCall

SpecRun == InitRun /\ [][Next]_vars

(* Scheduling: the Go scheduler runs every runnable goroutine, and every   *)
(* SendTextMessage call returns.  Nothing obliges the environment to send  *)
(* a signal or to cancel the scope.                                        *)

MainStep == main2_Select \/ main2_Close \/ main2_Range \/ main2_Recv \/ main1_Report

RunStep == Run2_Begin \/ Run2_Await \/ main2_GoRun \/ Run1_Begin \/ Run1_Select \/ Run1_Drain

CoordinatorStep == run_Go \/ run_Wait \/ run_Close \/ run_Deliver

ClosureStep(k) == sendf_Send(k) \/ sendf_Write(k)

Fairness ==
    /\ WF_vars(MainStep)
    /\ WF_vars(RunStep)
    /\ WF_vars(CoordinatorStep)
    /\ \A k \in 1..MaxRecipients : WF_vars(ClosureStep(k))

FairSpecSignal == SpecSignal /\ Fairness

FairSpecDefer == SpecDefer /\ Fairness

-----------------------------------------------------------------------------
(* Claims about the signal-handling program (part_002) *)

Failed(k) == k \in 1..Len(tasks) /\ tasks[k].pc = "done" /\ tasks[k].err # Nil

Succeeded(k) == k \in 1..Len(tasks) /\ tasks[k].pc = "done" /\ tasks[k].err = Nil

\* C1: no Recipient Task ever writes to the Result Sink after the sink has
\* been closed (a write to a closed channel is the runtime panic "send on
\* closed channel").
C1_NoWriteAfterClose == fault # "send on closed channel"

\* C2: the Result Sink is closed at most once, and the step that closes it is
\* the coordinator's deferred close after its wait; neither main nor Run
\* closes it and nobody closes it a second time.
C2_SingleOwnerClose ==
    [][ /\ (responseChan'.closed /\ ~responseChan.closed)
             => (coPc = "close" /\ coPc' = "deliver")
        /\ fault' # "close of closed channel" ]_vars

\* C3: if every send succeeds and no interrupt signal ever arrives, the
\* program eventually reports all N Success outcomes and ends with status 0.
C3_CompletesWithoutSignal ==
    <>( \/ signals > 0
        \/ \E k \in 1..Len(tasks) : tasks[k].err # Nil
        \/ (exited /\ exitStatus = 0 /\ Len(output) = Len(recipients)) )

\* C4: once the interrupt signal has fired while no Recipient Task has
\* completed, the program eventually ends without a runtime fault, reporting
\* the cancellation error with status 1.
C4_InterruptTerminatesCleanly ==
    (signals > 0 /\ \A k \in 1..Len(tasks) : tasks[k].pc # "done")
      ~> (exited /\ fault = "none" /\ exitStatus = 1 /\ reported = CtxErr)

\* C7: once run has finished with a non-nil error, either the scope gets
\* cancelled or Run eventually returns a non-nil error that includes run's.
C7_RunReturnsCoordinatorError ==
    (coPc \in {"deliver", "done"} /\ coResult # Nil)
      ~> ( \/ nctxDone
           \/ (runPc \in {"returned", "delivered"} /\ runResult # Nil
                 /\ Includes(runResult, coResult)) )

-----------------------------------------------------------------------------
(* Claims about the coordinator run (both drafts) *)

\* the k-th send was given up because gctx was cancelled
Aborted(k) ==
    /\ k \in 1..Len(tasks) /\ tasks[k].pc = "done"
    /\ tasks[k].err = SendErr(tasks[k].to, "context canceled")

\* C5 as stated: the scope handed to the send calls is cancelled only when
\* the Lifecycle Controller's scope is, so no send is aborted while the
\* Lifecycle Controller's scope is live.
C5_FailureNeverAborts ==
    /\ (coPc = "loop" /\ gctxDone) => nctxDone
    /\ \A k \in 1..Len(tasks) : Aborted(k) => nctxDone

\* C5 amended: while run has not returned from its wait, the scope handed to
\* the send calls is cancelled exactly when the Lifecycle Controller's scope is
\* cancelled or some Recipient Task has failed; a send is aborted only after
\* the Lifecycle Controller's scope was cancelled or another recipient's task
\* failed.
C5_ScopeCancelledByFirstFailure ==
    /\ coPc = "loop" =>
         (gctxDone <=> (nctxDone \/ \E j \in 1..Len(tasks) : Failed(j)))
    /\ \A k \in 1..Len(tasks) :
         Aborted(k) => (nctxDone \/ \E j \in 1..Len(tasks) : j # k /\ Failed(j))

\* a recipient's failure has aborted another recipient's send while the
\* Lifecycle Controller's scope is live
C5_Witness ==
    /\ ~nctxDone
    /\ \E k \in 1..Len(tasks) : Aborted(k)
    /\ \E j \in 1..Len(tasks) : Failed(j) /\ ~Aborted(j)

\* C6: the error run returns is the join of exactly F errors, one per failed
\* recipient, and nil exactly when F = 0.
C6_JoinOfAllFailures ==
    coPc \in {"close", "deliver", "done"} =>
      /\ Len(coResult) = Cardinality({k \in 1..Len(tasks) : Failed(k)})
      /\ \A k \in 1..Len(tasks) : Failed(k) => Includes(coResult, tasks[k].err)

\* C10: run spawns one Recipient Task per list entry, in list order, and its
\* wait has returned, and run has closed the Result Sink, only when all N tasks
\* have finished.
C10_StrictJoin ==
    /\ Len(tasks) <= Len(recipients)
    /\ \A k \in 1..Len(tasks) : tasks[k].to = recipients[k]
    /\ coPc \in {"close", "deliver", "done"} =>
         /\ Len(tasks) = Len(recipients)
         /\ \A k \in 1..Len(recipients) : tasks[k].pc = "done"
    /\ (draft = "part_001" /\ responseChan.closed) =>
         /\ Len(tasks) = Len(recipients)
         /\ \A k \in 1..Len(recipients) : tasks[k].pc = "done"

\* run has closed the sink of a list of several recipients, some of whose
\* sends succeeded and some failed
C10_Witness ==
    /\ coPc \in {"deliver", "done"}
    /\ Len(recipients) > 1
    /\ \E k \in 1..Len(tasks) : Succeeded(k)
    /\ \E k \in 1..Len(tasks) : Failed(k)

-----------------------------------------------------------------------------
(* Claims about part_001's Run *)

\* number of times v was written to stdout
Printed(v) == Cardinality({i \in 1..Len(output) : output[i] = v})

\* C8: when Run has returned, through either branch of its select, every
\* closure has finished and every response a closure wrote to the Result Sink
\* has been written to the output exactly once (and nothing else has); no
\* response is ever written out twice; main reports the error only after Run
\* has returned.
C8_EveryResponsePrintedOnce ==
    /\ \A k \in 1..MaxRecipients : Printed(SendResponse(k)) <= 1
    /\ (runPc = "returned" /\ coPc # "idle") =>
         /\ Len(tasks) = Len(recipients)
         /\ \A k \in 1..Len(tasks) :
              /\ tasks[k].pc = "done"
              /\ Printed(SendResponse(k)) = (IF tasks[k].err = Nil THEN 1 ELSE 0)
         /\ Len(output) = Cardinality({k \in 1..Len(tasks) : Succeeded(k)})
    /\ mainPc = "done" => runPc = "returned"

\* Run has returned through its cancellation branch after one recipient's
\* response was written and another recipient's send failed
C8_Witness ==
    /\ draft = "part_001" /\ runPc = "returned" /\ runResult = CtxErr
    /\ \E k \in 1..Len(tasks) : Succeeded(k)
    /\ \E k \in 1..Len(tasks) : Failed(k)

\* C9: once the scope is cancelled while run's result has not been delivered
\* on errChan, the error Run returns is the scope's cancellation error.
C9_CancelledRunReturnsCtxErr ==
    []( (nctxDone /\ coPc # "done")
          => [](runPc \in {"drain", "returned"} => runResult = CtxErr) )

-----------------------------------------------------------------------------
(* Claims about the closures *)

\* every outcome written to the Result Sink so far: an outcome stays in the
\* channel until the reader moves it to the output
Written == responseChan.buf \o output

\* number of outcomes closure k has written
WrittenBy(k) ==
    Cardinality({i \in 1..Len(Written) : Written[i] = Outcome(k, tasks[k].resp)})

\* C11: a closure whose send succeeded has written exactly one outcome once it
\* has returned, a closure whose send failed or is still under way none; when
\* run has closed the sink the outcomes written are as many as the successful
\* sends.
C11_OneWritePerSuccess ==
    /\ \A k \in 1..Len(tasks) :
         WrittenBy(k) = (IF Succeeded(k) THEN 1 ELSE 0)
    /\ coPc \in {"deliver", "done"} =>
         Len(Written) = Cardinality({k \in 1..Len(tasks) : Succeeded(k)})

\* run has closed the sink after one send succeeded and another failed
C11_Witness ==
    /\ coPc = "deliver"
    /\ \E k \in 1..Len(tasks) : Succeeded(k) /\ WrittenBy(k) = 1
    /\ \E k \in 1..Len(tasks) : Failed(k)

\* C14: every closure calls the send operation once, for its own list entry,
\* whatever the call answers; no more closures exist than list entries, and
\* when run's wait has returned there is one closure per list entry.
C14_OneSendPerRecipient ==
    /\ Len(tasks) <= Len(recipients)
    /\ \A k \in 1..Len(tasks) : tasks[k].calls = 1 /\ tasks[k].to = recipients[k]
    /\ coPc \in {"close", "deliver", "done"} => Len(tasks) = Len(recipients)

\* run's wait has returned after a send failed and another was given up on
\* cancellation
C14_Witness ==
    /\ coPc \in {"close", "deliver", "done"}
    /\ \E k \in 1..Len(tasks) : Aborted(k)
    /\ \E k \in 1..Len(tasks) : Failed(k) /\ ~Aborted(k)

-----------------------------------------------------------------------------
(* Claims about Run's inputs and channels *)

\* Run has returned to its caller
RunReturned == runPc \in {"returned", "delivered"}

\* C12: handed an empty list, Run returns "no recipients specified" in its
\* first step: the coordinator is never started, no closure exists, nothing is
\* written to the Result Sink, and the sink is closed by nobody but main.
C12_EmptyListRejected ==
    recipients = << >> =>
       /\ coPc = "idle" /\ tasks = << >>
       /\ runPc \in {"begin", "returned", "delivered"}
       /\ runPc # "begin" => runResult = NoRecipientsErr
       /\ Written = << >>
       /\ errChan = MakeChan(0)
       /\ responseChan.closed => draft = "part_002" /\ mainPc \in {"range", "recv", "done"}

\* Run has returned on an empty list
C12_Witness == recipients = << >> /\ runPc = "returned" /\ runResult = NoRecipientsErr

\* the Result Sink has been made: by main in part_002, by Run in part_001
SinkMade == draft = "part_002" \/ runPc # "begin"

\* C13: the Result Sink is made with room for as many outcomes as the list has
\* entries, never holds more, and a closure at its write finds room whenever
\* the sink is open.
C13_SinkNeverFull ==
    /\ SinkMade => responseChan.cap = Len(recipients)
    /\ Len(responseChan.buf) <= Len(recipients)
    /\ \A k \in 1..Len(tasks) :
         tasks[k].pc = "write" /\ ~responseChan.closed => CanSend(responseChan)

\* a closure is at its write while the sink already holds every other outcome
C13_Witness ==
    /\ Len(recipients) > 1
    /\ Len(responseChan.buf) = Len(recipients) - 1
    /\ ~responseChan.closed
    /\ \E k \in 1..Len(tasks) : tasks[k].pc = "write"

\* INPUT_RECIPIENTS is unset or empty
InputRecipientsEmpty == recipients = Split(EnvValue(0))

\* C16: with INPUT_RECIPIENTS unset or empty Run's check for an empty list
\* fires: no closure is started, so no send is attempted, and Run's result is
\* "no recipients specified".
C16_EmptyInputSendsNothing ==
    InputRecipientsEmpty =>
       /\ tasks = << >>
       /\ RunReturned => runResult = NoRecipientsErr

\* C17: under fair scheduling, every send returning, Run of part_001 returns
\* in every execution.
C17_RunReturns == <>RunReturned

\* Run has returned on cancellation, its drain done after run closed the sink
C17_Witness ==
    /\ draft = "part_001" /\ runPc = "returned" /\ runResult = CtxErr
    /\ responseChan.closed

\* C18: when run of part_001 comes to deliver its result there is room in
\* errChan, whichever branch Run's select took.
C18_DeliveryNeverBlocks ==
    draft = "part_001" /\ coPc = "deliver" => CanSend(errChan)

\* run is about to deliver after Run has left its select on cancellation
C18_Witness ==
    /\ draft = "part_001" /\ coPc = "deliver"
    /\ runPc \in {"drain", "returned"} /\ runResult = CtxErr

-----------------------------------------------------------------------------
(* flattenResponse and NewRequestWithContext, each called on its own *)

Others == << draft, recipients, nctxDone, signals, signalChan, responseChan,
             errChan, mainErrChan, tasks, gErr, gCancelled, coPc, coResult,
             runPc, runWoken, allErrors, runResult, mainPc, output, reported >>

\* []*MessageID of a response
MessageLists ==
    UNION { [1..n -> { [ID |-> WamIds[1]], [ID |-> WamIds[2]] }] : n \in 0..MaxMessages }

\* the responses of a successful send: Message nil, or with any message list
SuccessResponses ==
    { [StatusCode |-> c, Message |-> m] :
        c \in {200, 201},
        m \in { << >> } \cup { << [Messages |-> ms] >> : ms \in MessageLists } }

FlattenCalls ==
    { [fn |-> "flattenResponse", receiver |-> r, response |-> x,
       pc |-> "called", result |-> << >>] :
        r \in { RecipientIds[1], RecipientIds[2], "" }, x \in SuccessResponses }

flattenResponse_Return ==
    /\ Alive /\ call.fn = "flattenResponse" /\ call.pc = "called"
    /\ call' = [call EXCEPT !.pc = "returned",
                            !.result = flattenResponse(call.receiver, call.response)]
    /\ UNCHANGED << Others, exited, exitStatus, fault >>

\* A map[string]string is [nil, kv]: kv lists its << key, value >> pairs by key.
NilMap == [nil |-> TRUE, kv |-> << >>]

MapOf(kv) == [nil |-> FALSE, kv |-> kv]

\* url.QueryEscape
QueryEscape(v) == IF v = "x y" THEN "x+y" ELSE v

RECURSIVE Encode(_)
\* url.Values.Encode: key=value pairs by key, escaped, joined by &
Encode(kv) ==
    IF kv = << >> THEN ""
    ELSE LET pair == Head(kv)[1] \o "=" \o QueryEscape(Head(kv)[2])
         IN  IF Tail(kv) = << >> THEN pair ELSE pair \o "&" \o Encode(Tail(kv))

\* http.Header.Set
Set(h, key, value) ==
    IF \E i \in 1..Len(h) : h[i][1] = key
    THEN [i \in 1..Len(h) |-> IF h[i][1] = key THEN << key, value >> ELSE h[i]]
    ELSE Append(h, << key, value >>)

\* http.Header.Get
Get(h, key) ==
    IF \E i \in 1..Len(h) : h[i][1] = key
    THEN (CHOOSE p \in { h[i] : i \in 1..Len(h) } : p[1] = key)[2]
    ELSE ""

RECURSIVE SetAll(_, _)
\* for key, value := range params.Headers { req.Header.Set(key, value) }
SetAll(h, kv) ==
    IF kv = << >> THEN h ELSE SetAll(Set(h, Head(kv)[1], Head(kv)[2]), Tail(kv))

GoodURL == "https://graph.facebook.com/v16.0/1/messages"

\* http.NewRequestWithContext refuses a URL it cannot parse
RequestErr == << [msg |-> "failed to create new request: parse error", to |-> ""] >>

\* what NewRequestWithContext does: the runtime fault it ends in ("none" if
\* none), and the request (<< >> when nil) and error it returns otherwise.
\* The method handed in is not used: the request is always a POST.
NewRequestWithContext(requestURL, params, payload) ==
    IF ~params.Form.nil
    THEN \* req is still nil at req.Header.Set
         [fault |-> "nil pointer dereference", req |-> << >>, err |-> Nil]
    ELSE IF requestURL # GoodURL
    THEN [fault |-> "none", req |-> << >>, err |-> RequestErr]
    ELSE LET body    == IF payload # << >> THEN payload ELSE << >>
             headers == IF ~params.Headers.nil THEN SetAll(<< >>, params.Headers.kv)
                        ELSE << >>
             bearer  == IF params.Bearer # ""
                        THEN Set(headers, "Authorization", "Bearer " \o params.Bearer)
                        ELSE headers
             query   == IF ~params.Query.nil THEN Encode(params.Query.kv) ELSE ""
         IN  [fault |-> "none",
              req   |-> << [Method |-> "POST", URL |-> requestURL, RawQuery |-> query,
                            Body |-> body, Header |-> bearer] >>,
              err   |-> Nil]

FormMaps ==
    { NilMap, MapOf(<< >>), MapOf(<< << "a", "1" >> >>),
      MapOf(<< << "a", "x y" >>, << "b", "2" >> >>) }

RequestParams ==
    { [Form |-> f, Headers |-> h, Bearer |-> b, Query |-> q] :
        f \in FormMaps,
        h \in { NilMap, MapOf(<< << "Content-Type", "application/json" >> >>) },
        b \in { "", "token" },
        q \in { NilMap, MapOf(<< << "q", "x y" >> >>) } }

RequestCalls ==
    { [fn |-> "NewRequestWithContext", requestURL |-> u, params |-> p,
       payload |-> b, pc |-> "called", result |-> << >>] :
        u \in { GoodURL, "://" }, p \in RequestParams,
        b \in { << >>, << "{\"type\":\"text\"}" >> } }

NewRequestWithContext_Return ==
    /\ Alive /\ call.fn = "NewRequestWithContext" /\ call.pc = "called"
    /\ LET r == NewRequestWithContext(call.requestURL, call.params, call.payload)
       IN  IF r.fault # "none"
           THEN /\ call' = [call EXCEPT !.pc = "panicked"]
                /\ Panic(r.fault)
           ELSE /\ call' = [call EXCEPT !.pc = "returned", !.result = r]
                /\ UNCHANGED << exited, exitStatus, fault >>
    /\ UNCHANGED Others

InitCalls ==
    /\ draft = "none"
    /\ recipients = << >>
    /\ InitRest
    /\ responseChan = MakeChan(0)
    /\ mainErrChan = MakeChan(0)
    /\ mainPc = "none"
    /\ call \in FlattenCalls \cup RequestCalls

NextCalls == flattenResponse_Return \/ NewRequestWithContext_Return

SpecCalls == InitCalls /\ [][NextCalls]_vars

\* the first message id of a response, "" when it has no message body or an
\* empty message list
FirstID(response) ==
    IF response.Message = << >> THEN ""
    ELSE IF response.Message[1].Messages = << >> THEN ""
    ELSE Head(response.Message[1].Messages).ID

\* C15: the outcome flattenResponse returns for a successful send response
\* carries the recipient handed in, the response's status code, and the id of
\* the first entry of the response's message list, or "" when the response has
\* no message body or an empty list.
C15_FlattenResponse ==
    call.fn = "flattenResponse" /\ call.pc = "returned" =>
       /\ call.result.Receiver = call.receiver
       /\ call.result.StatusCode = call.response.StatusCode
       /\ call.result.MessageID = FirstID(call.response)

\* flattenResponse has returned the first of two different message ids
C15_Witness ==
    /\ call.fn = "flattenResponse" /\ call.pc = "returned"
    /\ call.response.Message # << >>
    /\ Len(call.response.Message[1].Messages) = 2
    /\ call.response.Message[1].Messages[1] # call.response.Message[1].Messages[2]
    /\ call.result.MessageID = call.response.Message[1].Messages[1].ID

\* C19: a call of NewRequestWithContext with a non-nil Form ends without a
\* runtime fault, and the request it returns has the URL-encoded form as its
\* body and the Content-Type application/x-www-form-urlencoded.
C19_FormRequestBuilt ==
    /\ call.fn = "NewRequestWithContext"
    /\ ~call.params.Form.nil
    /\ call.pc # "called"
    => /\ fault = "none"
       /\ call.pc = "returned"
       /\ call.requestURL = GoodURL =>
            /\ call.result.req # << >>
            /\ call.result.req[1].Body = << Encode(call.params.Form.kv) >>
            /\ Get(call.result.req[1].Header, "Content-Type")
                 = "application/x-www-form-urlencoded"

=============================================================================
